---- MODULE Spec2Model ----
(***************************************************************************)
(* LinearSystem (src/linsys.py): a list of planes of one dimension, the    *)
(* row operations on it, and the two reductions compute_triangular_form    *)
(* and compute_rref_form.                                                  *)
(*                                                                         *)
(* Numbers are exact rationals <<numerator, denominator>> in lowest terms  *)
(* with a positive denominator.  A plane is a record of its normal vector  *)
(* (a sequence of numbers) and its constant term.  Python lists are       *)
(* objects: heap[l] is the content of the list with identity l, and a      *)
(* LinearSystem is the record of its two attributes, planes (a list        *)
(* identity) and dimension.  Python indexes from 0, sequences here from 1: *)
(* every index variable keeps the Python value and the accessors add 1.    *)
(***************************************************************************)
EXTENDS Integers, Sequences, FiniteSets, TLC

\* ---------------------------------------------------------------- bounds
\* coefficients of the input planes range over -1 .. MaxCoef
MaxCoef == 1
\* solution sets are compared on the points of (-GridMax .. GridMax)^dimension
GridMax == 1
\* calls made on one system in the row-operation specification
MaxOps == 2

\* ------------------------------------------------------------- numbers
RECURSIVE GCD(_, _)
GCD(a, b) == IF b = 0 THEN a ELSE GCD(b, a % b)

IAbs(n) == IF n < 0 THEN -n ELSE n

\* the number n/d (d # 0) in lowest terms with a positive denominator
Norm(n, d) ==
    LET s == IF d < 0 THEN -1 ELSE 1
        g == GCD(IAbs(n), IAbs(d))
    IN  <<(s * n) \div g, (s * d) \div g>>

Num(n) == <<n, 1>>
Zero == <<0, 1>>
One == <<1, 1>>

RAdd(x, y) == Norm(x[1] * y[2] + y[1] * x[2], x[2] * y[2])
RMul(x, y) == Norm(x[1] * y[1], x[2] * y[2])
RNeg(x) == <<-x[1], x[2]>>
RSub(x, y) == RAdd(x, RNeg(y))
\* x / y, y # 0
RDiv(x, y) == Norm(x[1] * y[2], x[2] * y[1])
RAbs(x) == <<IAbs(x[1]), x[2]>>
RPos(x) == x[1] > 0
RNegative(x) == x[1] < 0

\* round(x, ndigits=RoundDigits): the nearest multiple of 10^-RoundDigits,
\* a tie going to the even multiple
RoundDigits == 3
RECURSIVE Pow10(_)
Pow10(k) == IF k = 0 THEN 1 ELSE 10 * Pow10(k - 1)
Round(x) ==
    LET m == Pow10(RoundDigits)
        q == (x[1] * m) \div x[2]
        r == (x[1] * m) % x[2]
        k == IF 2 * r < x[2] THEN q
             ELSE IF 2 * r > x[2] THEN q + 1
             ELSE IF q % 2 = 0 THEN q ELSE q + 1
    IN  Norm(k, m)

\* -------------------------------------------------------------- planes
\* the Plane collaborator (plane.py is not among the sources): the
\* capability set the linear system consumes
Plane(nv, k) == [normal_vector |-> nv, constant_term |-> k]
PlaneDimension(p) == Len(p.normal_vector)
\* plane[i], i from 0
PlaneGet(p, i) == p.normal_vector[i + 1]
\* plane * c
PlaneTimes(p, c) ==
    Plane([i \in 1..Len(p.normal_vector) |-> RMul(p.normal_vector[i], c)],
          RMul(p.constant_term, c))
\* p + q, planes of one dimension
PlanePlus(p, q) ==
    Plane([i \in 1..Len(p.normal_vector) |->
               RAdd(p.normal_vector[i], q.normal_vector[i])],
          RAdd(p.constant_term, q.constant_term))
\* p - q
PlaneMinus(p, q) ==
    Plane([i \in 1..Len(p.normal_vector) |->
               RSub(p.normal_vector[i], q.normal_vector[i])],
          RSub(p.constant_term, q.constant_term))
\* Plane.first_nonzero_index, with -1 standing for NoNonZeroElements
FirstNonzeroIndex(p) ==
    LET nz == {i \in 1..Len(p.normal_vector) : p.normal_vector[i] # Zero}
    IN  IF nz = {} THEN -1
        ELSE (CHOOSE i \in nz : \A j \in nz : i <= j) - 1

\* ------------------------------------------------------------- inputs
\* (number of equations, dimension) of the systems explored
Shapes == {<<1, 1>>, <<2, 2>>, <<3, 1>>, <<4, 1>>, <<2, 3>>}
Coefs == {Num(n) : n \in -1..MaxCoef}
\* the constant terms of the input planes
Consts == {Zero, One}
PlanesOfDim(d) ==
    {Plane(nv, k) : nv \in [1..d -> Coefs], k \in Consts}
InputsOf(shapes) == UNION {[1..sh[1] -> PlanesOfDim(sh[2])] : sh \in shapes}
Inputs == InputsOf(Shapes)
\* the shapes on which solution sets are compared point by point
SolveShapes == {<<1, 3>>, <<2, 2>>, <<3, 1>>, <<4, 1>>}

\* --------------------------------------------------------------- state
VARIABLES
    heap,         \* the list objects: heap[l] is the content of list l
    self,         \* the receiver: [planes |-> list identity, dimension]
    orig,         \* snapshot of the receiver's rows when the call began
    triangular,   \* compute_triangular_form's local
    rref,         \* compute_rref_form's local
    result,       \* the system the outermost call returned
    method,       \* the outermost call in progress
    pc,           \* position in the code
    rows, dims, row, dim, next_row, range_index, coefficient, swap,
    hist          \* row-operation specification: the calls made so far

vars == <<heap, self, orig, triangular, rref, result, method, pc,
          rows, dims, row, dim, next_row, range_index, coefficient, swap,
          hist>>

locals == <<rows, dims, row, dim, next_row, range_index, coefficient, swap>>

NoSystem == [planes |-> 0, dimension |-> 0]

\* s.planes[i][j], i and j from 0
Coef(h, s, i, j) == PlaneGet(h[s.planes][i + 1], j)
\* s.planes[i] = p
SetRow(h, s, i, p) == [h EXCEPT ![s.planes] = [@ EXCEPT ![i + 1] = p]]

\* a copy that shares the list: the system it returns is the receiver
reference_copy(h, s) == [heap |-> h, sys |-> s]

\* copy.deepcopy of a system: a new list object holding copies of the rows
deepcopy(h, s) ==
    [heap |-> Append(h, h[s.planes]),
     sys  |-> [planes |-> Len(h) + 1, dimension |-> s.dimension]]

\* ------------------------------------------------------ row operations
swap_rows(h, s, index_1, index_2) ==
    LET row_1 == h[s.planes][index_1 + 1]
        h1 == SetRow(h, s, index_1, h[s.planes][index_2 + 1])
    IN  SetRow(h1, s, index_2, row_1)

multiply_coefficient_and_row(h, s, c, r) ==
    SetRow(h, s, r, PlaneTimes(h[s.planes][r + 1], c))

\* the scaled row stored in place of the sum
add_multiple_replaces(h, s, c, row_to_add, row_to_be_added_to) ==
    SetRow(h, s, row_to_be_added_to,
           PlaneTimes(h[s.planes][row_to_add + 1], c))

add_multiple_times_row_to_row(h, s, c, row_to_add, row_to_be_added_to) ==
    LET plane == PlaneTimes(h[s.planes][row_to_add + 1], c)
    IN  SetRow(h, s, row_to_be_added_to,
               PlanePlus(h[s.planes][row_to_be_added_to + 1], plane))

get_first_nonzero_indexes(h, s) ==
    [i \in 1..Len(h[s.planes]) |-> FirstNonzeroIndex(h[s.planes][i])]

\* ----------------------------------------------- compute_triangular_form
InitFrom(inputs) ==
    /\ \E input \in inputs :
          /\ heap = <<input>>
          /\ self = [planes |-> 1, dimension |-> PlaneDimension(input[1])]
          /\ orig = [planes |-> input,
                     dimension |-> PlaneDimension(input[1])]
    /\ triangular = NoSystem
    /\ rref = NoSystem
    /\ result = NoSystem
    /\ method = ""
    /\ pc = "idle"
    /\ rows = 0 /\ dims = 0 /\ row = 0 /\ dim = 0
    /\ next_row = 0 /\ range_index = 0
    /\ coefficient = Zero
    /\ swap = FALSE
    /\ hist = <<>>

Init == InitFrom(Inputs)
SolveInit == InitFrom(InputsOf(SolveShapes))

\* lines 89-93: the copy and the loop variables
TriEnter(h, s) ==
    LET c == deepcopy(h, s)
    IN  /\ heap' = c.heap
        /\ triangular' = c.sys
        /\ rows' = Len(c.heap[c.sys.planes])
        /\ dims' = c.sys.dimension
        /\ dim' = 0
        /\ row' = 0
        /\ pc' = "tri_for"

CallTriangular ==
    /\ pc = "idle"
    /\ method' = "compute_triangular_form"
    /\ TriEnter(heap, self)
    /\ UNCHANGED <<self, orig, rref, result, next_row, range_index,
                   coefficient, swap, hist>>

CallRref ==
    /\ pc = "idle"
    /\ method' = "compute_rref_form"
    /\ TriEnter(heap, self)
    /\ UNCHANGED <<self, orig, rref, result, next_row, range_index,
                   coefficient, swap, hist>>

\* line 94: for row in range(0, rows - 1)
TriFor ==
    /\ pc = "tri_for"
    /\ pc' = IF row < rows - 1 THEN "tri_while" ELSE "tri_return"
    /\ UNCHANGED <<heap, self, orig, triangular, rref, result, method,
                   locals, hist>>

\* lines 95-99 and 106-108: one test of the while loop and of the pivot
TriWhile ==
    /\ pc = "tri_while"
    /\ IF dim < dims
       THEN LET c == Coef(heap, triangular, row, dim)
            IN  /\ coefficient' = c
                /\ next_row' = row + 1
                /\ IF c = Zero
                   THEN swap' = FALSE /\ pc' = "tri_search"
                   ELSE swap' = swap /\ pc' = "tri_clear"
                /\ row' = row
       ELSE /\ row' = row + 1
            /\ pc' = "tri_for"
            /\ UNCHANGED <<coefficient, next_row, swap>>
    /\ UNCHANGED <<heap, self, orig, triangular, rref, result, method,
                   rows, dims, dim, range_index, hist>>

\* the test with >= in place of >
SwapCandidateOrZero(h, s, r, d) == ~RNegative(Coef(h, s, r, d))

\* line 101: the test that makes next_row a row to swap in
SwapCandidate(h, s, r, d) == RPos(Coef(h, s, r, d))

\* lines 100-105: one row of the swap search, or its end
TriSearch ==
    /\ pc = "tri_search"
    /\ IF next_row < rows - 1
       THEN /\ IF SwapCandidate(heap, triangular, next_row, dim)
               THEN /\ heap' = swap_rows(heap, triangular, row, next_row)
                    /\ swap' = TRUE
               ELSE UNCHANGED <<heap, swap>>
            /\ next_row' = next_row + 1
            /\ UNCHANGED <<dim, pc>>
       ELSE /\ dim' = IF swap = FALSE THEN dim + 1 ELSE dim
            /\ pc' = "tri_while"
            /\ UNCHANGED <<heap, swap, next_row>>
    /\ UNCHANGED <<self, orig, triangular, rref, result, method,
                   rows, dims, row, range_index, coefficient, hist>>

\* the reduction plane stored in place of the sum
ClearBelowReplaces(h, s, r, nr, d, c) ==
    LET coefficient_remove == Coef(h, s, nr, d)
    IN  IF coefficient_remove # Zero
        THEN SetRow(h, s, nr,
                    PlaneTimes(h[s.planes][r + 1],
                               RMul(RDiv(coefficient_remove, c), Num(-1))))
        ELSE h

\* lines 109-115: the row below with its coefficient at dim cleared
ClearBelow(h, s, r, nr, d, c) ==
    LET coefficient_remove == Coef(h, s, nr, d)
    IN  IF coefficient_remove # Zero
        THEN LET factor == RMul(RDiv(coefficient_remove, c), Num(-1))
                 reduction_plane == PlaneTimes(h[s.planes][r + 1], factor)
             IN  SetRow(h, s, nr, PlanePlus(h[s.planes][nr + 1],
                                            reduction_plane))
        ELSE h

\* lines 108-117: one row below the pivot, or the break
TriClear ==
    /\ pc = "tri_clear"
    /\ IF next_row < rows
       THEN /\ heap' = ClearBelow(heap, triangular, row, next_row, dim,
                                  coefficient)
            /\ next_row' = next_row + 1
            /\ UNCHANGED <<row, pc>>
       ELSE /\ row' = row + 1
            /\ pc' = "tri_for"
            /\ UNCHANGED <<heap, next_row>>
    /\ UNCHANGED <<self, orig, triangular, rref, result, method,
                   rows, dims, dim, range_index, coefficient, swap, hist>>

\* line 119, and for compute_rref_form lines 129-132
TriReturn ==
    /\ pc = "tri_return"
    /\ IF method = "compute_triangular_form"
       THEN /\ result' = triangular
            /\ pc' = "done"
            /\ UNCHANGED <<heap, rref, rows, dims, dim, row>>
       ELSE LET c == deepcopy(heap, triangular)
            IN  /\ heap' = c.heap
                /\ rref' = c.sys
                /\ rows' = Len(c.heap[c.sys.planes])
                /\ dims' = c.sys.dimension - 1
                /\ dim' = c.sys.dimension - 1
                /\ row' = Len(c.heap[c.sys.planes]) - 1
                /\ pc' = "rref_for"
                /\ UNCHANGED result
    /\ UNCHANGED <<self, orig, triangular, method, next_row, range_index,
                   coefficient, swap, hist>>

\* ---------------------------------------------------- compute_rref_form
\* line 134: for row in range(rows - 1, -1, -1); lines 166-167 after it
RrefFor ==
    /\ pc = "rref_for"
    /\ IF row > -1
       THEN pc' = "rref_while" /\ row' = row /\ rows' = rows
       ELSE /\ rows' = Len(heap[rref.planes])
            /\ row' = Len(heap[rref.planes]) - 1
            /\ pc' = "norm_for"
    /\ UNCHANGED <<heap, self, orig, triangular, rref, result, method,
                   dims, dim, next_row, range_index, coefficient, swap,
                   hist>>

\* lines 135-137 and 161-163: one test of the while loop and of the
\* coefficient at the cursor
RrefWhile ==
    /\ pc = "rref_while"
    /\ IF dim > -1
       THEN LET c == Coef(heap, rref, row, dim)
            IN  /\ coefficient' = c
                /\ IF c # Zero
                   THEN /\ range_index' = row
                        /\ pc' = "rref_under"
                        /\ dim' = dim
                   ELSE /\ dim' = dim - 1
                        /\ UNCHANGED <<range_index, pc>>
                /\ row' = row
       ELSE /\ dim' = dims
            /\ row' = row - 1
            /\ pc' = "rref_for"
            /\ UNCHANGED <<coefficient, range_index>>
    /\ UNCHANGED <<heap, self, orig, triangular, rref, result, method,
                   rows, dims, next_row, swap, hist>>

\* the cancellation that always subtracts, whatever the coefficient's sign
CancelWithoutSign(h, s, r, under_row, d, c) ==
    LET under_coeff == Round(Coef(h, s, under_row, d))
    IN  IF under_coeff # Zero
        THEN SetRow(h, s, r,
                    PlaneMinus(h[s.planes][r + 1],
                               PlaneTimes(h[s.planes][under_row + 1],
                                          RDiv(RAbs(c), under_coeff))))
        ELSE h

\* lines 140-158: the current row after the row under it is used to cancel
\* the coefficient at dim
CancelWith(h, s, r, under_row, d, c) ==
    LET under_coeff == Round(Coef(h, s, under_row, d))
    IN  IF under_coeff # Zero
        THEN LET positive == RNegative(c)
                 sub_factor == RDiv(RAbs(c), under_coeff)
                 reduction_plane ==
                     PlaneTimes(h[s.planes][under_row + 1], sub_factor)
             IN  SetRow(h, s, r,
                        IF positive
                        THEN PlanePlus(h[s.planes][r + 1], reduction_plane)
                        ELSE PlaneMinus(h[s.planes][r + 1], reduction_plane))
        ELSE h

\* lines 139-161: one row under the current one, or the end of the scan
RrefUnder ==
    /\ pc = "rref_under"
    /\ IF range_index < rows - 1
       THEN /\ heap' = CancelWith(heap, rref, row, range_index + 1, dim,
                                  coefficient)
            /\ range_index' = range_index + 1
            /\ UNCHANGED <<dim, pc>>
       ELSE /\ dim' = dim - 1
            /\ pc' = "rref_while"
            /\ UNCHANGED <<heap, range_index>>
    /\ UNCHANGED <<self, orig, triangular, rref, result, method,
                   rows, dims, row, next_row, coefficient, swap, hist>>

\* line 167: for row in range(rows - 1, -1, -1); line 175 after it
NormFor ==
    /\ pc = "norm_for"
    /\ IF row > -1
       THEN pc' = "norm_while" /\ result' = result
       ELSE pc' = "done" /\ result' = rref
    /\ UNCHANGED <<heap, self, orig, triangular, rref, method,
                   locals, hist>>

\* lines 172-173: the row divided by its coefficient c
Normalise(h, s, r, c) ==
    LET sub_factor == RDiv(One, c)
    IN  SetRow(h, s, r, PlaneTimes(h[s.planes][r + 1], sub_factor))

\* lines 168-174: one test of the while loop; dim is not set again for
\* the next row
NormWhile ==
    /\ pc = "norm_while"
    /\ IF dim > -1
       THEN LET c == Coef(heap, rref, row, dim)
            IN  /\ coefficient' = c
                /\ heap' = IF c # Zero THEN Normalise(heap, rref, row, c)
                           ELSE heap
                /\ dim' = dim - 1
                /\ UNCHANGED <<row, pc>>
       ELSE /\ row' = row - 1
            /\ pc' = "norm_for"
            /\ UNCHANGED <<heap, dim, coefficient>>
    /\ UNCHANGED <<self, orig, triangular, rref, result, method,
                   rows, dims, next_row, range_index, swap, hist>>

\* ------------------------------------------------------ after the call
\* the caller applies one row operation to the system it was returned
ResultOp ==
    /\ pc = "done"
    /\ \E c \in {Zero, Num(2)} :
          \/ heap' = swap_rows(heap, result, 0, rows - 1)
          \/ heap' = multiply_coefficient_and_row(heap, result, c, 0)
          \/ heap' = add_multiple_times_row_to_row(heap, result, c,
                                                   rows - 1, 0)
    /\ pc' = "after"
    /\ UNCHANGED <<self, orig, triangular, rref, result, method, locals,
                   hist>>

\* the caller calls compute_rref_form again, on the system it was returned
CallRrefOnResult ==
    /\ pc = "done"
    /\ method = "compute_rref_form"
    /\ self.planes = 1
    /\ self' = result
    /\ orig' = [planes |-> heap[result.planes],
                dimension |-> result.dimension]
    /\ TriEnter(heap, result)
    /\ rref' = NoSystem
    /\ result' = NoSystem
    /\ UNCHANGED <<method, next_row, range_index, coefficient, swap, hist>>

Next ==
    \/ CallTriangular
    \/ CallRref
    \/ TriFor
    \/ TriWhile
    \/ TriSearch
    \/ TriClear
    \/ TriReturn
    \/ RrefFor
    \/ RrefWhile
    \/ RrefUnder
    \/ NormFor
    \/ NormWhile
    \/ ResultOp
    \/ CallRrefOnResult

Spec == Init /\ [][Next]_vars
SolveSpec == SolveInit /\ [][Next]_vars

\* ----------------------------------- construction and row replacement
SAME_DIM_MSG == "All planes in the system should live in the same dimension"

\* LinearSystem(planes) on the caller's list l: the system, or the error
init(h, l) ==
    LET planes == h[l]
        d == PlaneDimension(planes[1])
    IN  IF \A i \in 1..Len(planes) : PlaneDimension(planes[i]) = d
        THEN [sys |-> [planes |-> l, dimension |-> d], error |-> ""]
        ELSE [sys |-> NoSystem, error |-> SAME_DIM_MSG]

\* the replacement without its dimension check
setitem_unchecked(h, s, index, plane) ==
    [heap |-> SetRow(h, s, index, plane), error |-> ""]

\* s[index] = plane: the heap after it, and the error raised
setitem(h, s, index, plane) ==
    IF PlaneDimension(plane) = s.dimension
    THEN [heap |-> SetRow(h, s, index, plane), error |-> ""]
    ELSE [heap |-> h, error |-> SAME_DIM_MSG]

\* the planes and coefficients the caller of the row operations uses
OpsPlanes ==
    {Plane(<<One>>, One),
     Plane(<<One, Zero>>, One),
     Plane(<<Zero, Num(2)>>, One),
     Plane(<<One, Num(-1)>>, Zero),
     Plane(<<Zero, Zero>>, Zero)}
OpsCoefs == {Num(n) : n \in -2..2}
OpsLists == [1..2 -> OpsPlanes]

Call(op, args, before, error) ==
    [op |-> op, args |-> args, before |-> before, error |-> error]

OpsInit ==
    /\ heap = <<>>
    /\ self = NoSystem
    /\ orig = [planes |-> <<>>, dimension |-> 0]
    /\ triangular = NoSystem
    /\ rref = NoSystem
    /\ result = NoSystem
    /\ method = ""
    /\ pc = "new"
    /\ rows = 0 /\ dims = 0 /\ row = 0 /\ dim = 0
    /\ next_row = 0 /\ range_index = 0
    /\ coefficient = Zero
    /\ swap = FALSE
    /\ hist = <<>>

Construct ==
    /\ pc = "new"
    /\ \E planes \in OpsLists :
          LET r == init(<<planes>>, 1)
          IN  /\ heap' = <<planes>>
              /\ self' = r.sys
              /\ hist' = <<Call("__init__", <<planes>>, <<>>, r.error)>>
              /\ pc' = IF r.error = "" THEN "ops" ELSE "failed"
    /\ UNCHANGED <<orig, triangular, rref, result, method, locals>>

OpsReady == pc = "ops" /\ Len(hist) <= MaxOps
Indexes == 0..(Len(heap[self.planes]) - 1)

SwapRows ==
    /\ OpsReady
    /\ \E a \in Indexes, b \in Indexes :
          /\ heap' = swap_rows(heap, self, a, b)
          /\ hist' = Append(hist, Call("swap_rows", <<a, b>>,
                                       heap[self.planes], ""))
    /\ UNCHANGED <<self, orig, triangular, rref, result, method, pc, locals>>

MultiplyCoefficientAndRow ==
    /\ OpsReady
    /\ \E c \in OpsCoefs, a \in Indexes :
          /\ heap' = multiply_coefficient_and_row(heap, self, c, a)
          /\ hist' = Append(hist, Call("multiply_coefficient_and_row",
                                       <<c, a>>, heap[self.planes], ""))
    /\ UNCHANGED <<self, orig, triangular, rref, result, method, pc, locals>>

AddMultipleTimesRowToRow ==
    /\ OpsReady
    /\ \E c \in OpsCoefs, a \in Indexes, b \in Indexes :
          /\ heap' = add_multiple_times_row_to_row(heap, self, c, a, b)
          /\ hist' = Append(hist, Call("add_multiple_times_row_to_row",
                                       <<c, a, b>>, heap[self.planes], ""))
    /\ UNCHANGED <<self, orig, triangular, rref, result, method, pc, locals>>

SetItem ==
    /\ OpsReady
    /\ \E a \in Indexes, plane \in OpsPlanes :
          LET r == setitem(heap, self, a, plane)
          IN  /\ heap' = r.heap
              /\ hist' = Append(hist, Call("__setitem__", <<a, plane>>,
                                           heap[self.planes], r.error))
    /\ UNCHANGED <<self, orig, triangular, rref, result, method, pc, locals>>

OpsNext ==
    \/ Construct
    \/ SwapRows
    \/ MultiplyCoefficientAndRow
    \/ AddMultipleTimesRowToRow
    \/ SetItem

OpsSpec == OpsInit /\ [][OpsNext]_vars

\* =============================================================== claims
DoneTri == pc = "done" /\ method = "compute_triangular_form"
DoneRref == pc = "done" /\ method = "compute_rref_form"
InCall == pc \notin {"new", "ops", "failed", "idle", "done", "after"}
InTriangular == pc \in {"tri_for", "tri_while", "tri_search", "tri_clear"}

\* sum of nv[i] * x[i] from index i on; x a sequence of numbers
RECURSIVE DotFrom(_, _, _)
DotFrom(nv, x, i) ==
    IF i > Len(nv) THEN Zero
    ELSE RAdd(RMul(nv[i], x[i]), DotFrom(nv, x, i + 1))
\* the point x satisfies every equation of planes
Satisfies(planes, x) ==
    \A i \in 1..Len(planes) :
        DotFrom(planes[i].normal_vector, x, 1) = planes[i].constant_term
\* the same for a point x of integers, as one fraction <<a, b>> that is not
\* reduced: a/b is the sum of nv[i] * x[i] from index i on
RECURSIVE SumFrom(_, _, _)
SumFrom(nv, x, i) ==
    IF i > Len(nv) THEN <<0, 1>>
    ELSE LET rest == SumFrom(nv, x, i + 1)
         IN  <<nv[i][1] * x[i] * rest[2] + rest[1] * nv[i][2],
               nv[i][2] * rest[2]>>
OnPlane(p, x) ==
    LET sum == SumFrom(p.normal_vector, x, 1)
    IN  sum[1] * p.constant_term[2] = p.constant_term[1] * sum[2]
Solves(planes, x) == \A i \in 1..Len(planes) : OnPlane(planes[i], x)
GridPoints(d) == [1..d -> -GridMax..GridMax]
SameSolutions(p, q, d) ==
    \A x \in GridPoints(d) : Solves(p, x) <=> Solves(q, x)
\* the system a call is working on, which is the one it returns
Working == IF rref # NoSystem THEN rref ELSE triangular

\* determinant of the coefficients of n planes of dimension n, n <= 3
Det(planes) ==
    LET m(i, j) == planes[i].normal_vector[j]
        n == Len(planes)
        d2(a, b, c, d) == RSub(RMul(a, d), RMul(b, c))
    IN  IF n = 1 THEN m(1, 1)
        ELSE IF n = 2 THEN d2(m(1, 1), m(1, 2), m(2, 1), m(2, 2))
        ELSE RAdd(RSub(RMul(m(1, 1), d2(m(2, 2), m(2, 3), m(3, 2), m(3, 3))),
                       RMul(m(1, 2), d2(m(2, 1), m(2, 3), m(3, 1), m(3, 3)))),
                  RMul(m(1, 3), d2(m(2, 1), m(2, 2), m(3, 1), m(3, 2))))

\* reduced row-echelon form: pivots equal 1, pivot columns otherwise zero,
\* pivots strictly moving right, zero rows last
IsRREF(planes) ==
    LET piv(i) == FirstNonzeroIndex(planes[i])
        n == Len(planes)
    IN  /\ \A i \in 1..n : piv(i) # -1 =>
              /\ PlaneGet(planes[i], piv(i)) = One
              /\ \A k \in 1..n : k # i => PlaneGet(planes[k], piv(i)) = Zero
        /\ \A i \in 1..n, j \in 1..n :
              (i < j /\ piv(j) # -1) => (piv(i) # -1 /\ piv(i) < piv(j))

\* C1: compute_triangular_form and compute_rref_form leave the receiver
\* unchanged: during the call, after it, and after a later row operation on
\* the returned system, the receiver's rows (order, coefficients, constant
\* terms) and its dimension are those it had when the call began.
ReceiverUnchanged ==
    method # "" =>
        /\ heap[self.planes] = orig.planes
        /\ self.dimension = orig.dimension

\* C1 witness: a row operation on the returned system has changed it
ReturnedSystemChanged ==
    /\ pc = "after"
    /\ heap[result.planes] # orig.planes
    /\ \E i \in 1..Len(orig.planes) : orig.planes[i].normal_vector[1] # Zero

\* C2: in the result of compute_triangular_form, any two rows i < j whose
\* first-nonzero index is not -1 have pivot_index(i) <= pivot_index(j).
PivotMonotone ==
    DoneTri =>
        LET idx == get_first_nonzero_indexes(heap, result)
        IN  \A i \in 1..Len(idx), j \in 1..Len(idx) :
                (i < j /\ idx[i] # -1 /\ idx[j] # -1) => idx[i] <= idx[j]

\* C3: for n equations in n unknowns with a unique solution,
\* compute_rref_form returns the identity coefficient matrix (row k has 1 at
\* index k and 0 elsewhere) with the solution values as constant terms.
RrefSolvesUnique ==
    (/\ DoneRref
     /\ Len(orig.planes) = orig.dimension
     /\ Det(orig.planes) # Zero) =>
        LET r == heap[result.planes]
            n == Len(r)
        IN  /\ \A i \in 1..n, j \in 1..n :
                  r[i].normal_vector[j] = (IF i = j THEN One ELSE Zero)
            /\ Satisfies(orig.planes, [i \in 1..n |-> r[i].constant_term])

\* C4: compute_rref_form returns a system in reduced row-echelon form as
\* it is: the rows of the result equal the rows of the receiver, in the
\* same order (the receiver may itself be a result of compute_rref_form).
RrefIdempotent ==
    (DoneRref /\ IsRREF(orig.planes)) => heap[result.planes] = orig.planes

\* C4 witness: a receiver in reduced row-echelon form whose first row has a
\* nonzero coefficient right of the second row's pivot, so that the
\* backward pass did cancel with the second row
RrefOfRrefReturned ==
    /\ DoneRref
    /\ IsRREF(orig.planes)
    /\ Len(orig.planes) = 2
    /\ orig.dimension = 3
    /\ FirstNonzeroIndex(orig.planes[2]) = 1
    /\ PlaneGet(orig.planes[1], 2) # Zero
    /\ PlaneGet(orig.planes[2], 2) # Zero

\* the last two calls were add_multiple_times_row_to_row(c, a, b) and then
\* add_multiple_times_row_to_row(-c, a, b)
AddThenSubtract ==
    /\ Len(hist) >= 2
    /\ LET first == hist[Len(hist) - 1]
           second == hist[Len(hist)]
       IN  /\ first.op = "add_multiple_times_row_to_row"
           /\ second.op = "add_multiple_times_row_to_row"
           /\ second.args[1] = RNeg(first.args[1])
           /\ second.args[2] = first.args[2]
           /\ second.args[3] = first.args[3]

\* C5 as stated: for any c and any valid a and b,
\* add_multiple_times_row_to_row(c, a, b) followed by
\* add_multiple_times_row_to_row(-c, a, b) restores row b and leaves every
\* other row unchanged.
AddThenSubtractRestores ==
    AddThenSubtract => heap[self.planes] = hist[Len(hist) - 1].before

\* C5 amended: the same, for two different rows a # b.
AddThenSubtractRestoresOtherRow ==
    (AddThenSubtract /\ hist[Len(hist)].args[2] # hist[Len(hist)].args[3]) =>
        heap[self.planes] = hist[Len(hist) - 1].before

\* C5 witness: the pair was applied with c # 0 to two different rows, and
\* the first call did change row b
AddThenSubtractApplied ==
    /\ AddThenSubtract
    /\ hist[Len(hist)].args[2] # hist[Len(hist)].args[3]
    /\ hist[Len(hist)].args[1] # Zero
    /\ hist[Len(hist)].before # hist[Len(hist) - 1].before

\* C6: construction from planes of mismatched dimension and replacement of
\* a row by a plane of another dimension fail with SAME_DIM_MSG, a failed
\* replacement leaves the rows and the dimension as they were, and after
\* any sequence of construction, swap, scale, add-multiple and replace
\* every row's dimension equals the system's dimension.
DimensionEnforced ==
    /\ pc = "ops" =>
          \A i \in 1..Len(heap[self.planes]) :
              PlaneDimension(heap[self.planes][i]) = self.dimension
    /\ (hist # <<>> /\ hist[Len(hist)].op = "__init__") =>
          LET planes == hist[Len(hist)].args[1]
              same == \A i \in 1..Len(planes) :
                         PlaneDimension(planes[i]) = PlaneDimension(planes[1])
          IN  IF same
              THEN /\ hist[Len(hist)].error = ""
                   /\ self.dimension = PlaneDimension(planes[1])
                   /\ heap[self.planes] = planes
              ELSE /\ hist[Len(hist)].error = SAME_DIM_MSG
                   /\ self = NoSystem
    /\ (hist # <<>> /\ hist[Len(hist)].op = "__setitem__") =>
          LET index == hist[Len(hist)].args[1]
              plane == hist[Len(hist)].args[2]
              before == hist[Len(hist)].before
          IN  IF PlaneDimension(plane) = self.dimension
              THEN /\ hist[Len(hist)].error = ""
                   /\ heap[self.planes] = [before EXCEPT ![index + 1] = plane]
              ELSE /\ hist[Len(hist)].error = SAME_DIM_MSG
                   /\ heap[self.planes] = before
                   /\ self.dimension = PlaneDimension(before[1])

\* C6 witness: a replacement by a plane of another dimension was rejected
\* after an earlier row operation
ReplacementRejected ==
    /\ Len(hist) >= 3
    /\ hist[Len(hist)].op = "__setitem__"
    /\ hist[Len(hist)].error = SAME_DIM_MSG
    /\ PlaneDimension(hist[Len(hist)].args[2]) # self.dimension

\* how far a call is from returning: the phase (3 triangular, 2 backward
\* clearing, 1 normalization, 0 returned), the rows left, the cursor
\* positions left, and the steps left at this (row, cursor); ordered
\* lexicographically
Measure ==
    CASE pc = "tri_for" -> <<3, rows - row, dims - dim, 2 * rows + 5>>
      [] pc = "tri_while" ->
            <<3, rows - row, dims - dim,
              IF dim < dims /\ Coef(heap, triangular, row, dim) = Zero
              THEN 2 * rows + 4 ELSE rows + 2>>
      [] pc = "tri_search" ->
            <<3, rows - row, dims - dim, rows + 3 + (rows - next_row)>>
      [] pc = "tri_clear" ->
            <<3, rows - row, dims - dim, 1 + (rows - next_row)>>
      [] pc = "tri_return" -> <<3, 0, 0, 0>>
      [] pc = "rref_for" -> <<2, row + 1, dim + 1, rows + 3>>
      [] pc = "rref_while" -> <<2, row + 1, dim + 1, rows + 2>>
      [] pc = "rref_under" -> <<2, row + 1, dim + 1, rows - range_index>>
      [] pc = "norm_for" -> <<1, row + 1, dim + 1, 2>>
      [] pc = "norm_while" -> <<1, row + 1, dim + 1, 1>>
      [] OTHER -> <<0, 0, 0, 0>>
LexLess(a, b) ==
    \E k \in 1..4 : a[k] < b[k] /\ \A j \in 1..(k - 1) : a[j] = b[j]

\* the positions of a call in progress; each has one action, whose only
\* guard is the position
Positions ==
    {"tri_for", "tri_while", "tri_search", "tri_clear", "tri_return",
     "rref_for", "rref_while", "rref_under", "norm_for", "norm_while"}

\* C7: compute_triangular_form and compute_rref_form terminate: a call in
\* progress is at a position that has a next step, every step brings it
\* nearer to its
\* return in a well-founded order (so no loop runs forever); in the
\* triangular reducer the row index and the cursor never move back and stay
\* within 0..rows and 0..dims; and after a swap the retry at the same
\* (row, cursor) finds a nonzero coefficient, so it takes the pivot instead
\* of searching again.
CallsTerminate ==
    /\ [](InCall => pc \in Positions)
    /\ [](\A k \in 1..4 : Measure[k] >= 0)
    /\ [][InCall => LexLess(Measure', Measure)]_vars
    /\ [][InTriangular /\ InTriangular' =>
              /\ row' >= row /\ dim' >= dim
              /\ row' \in 0..rows' /\ dim' \in 0..dims']_vars
    /\ [][(pc = "tri_search" /\ pc' = "tri_while" /\ swap) =>
              /\ row' = row /\ dim' = dim
              /\ Coef(heap', triangular', row', dim') # Zero]_vars

\* C7 witness: compute_triangular_form has returned after a swap and retry:
\* the first row of the receiver had no coefficient at cursor 0, the second
\* did, and the second is the first row of the result, which differs from
\* the receiver's rows
ReturnedAfterSwap ==
    /\ DoneTri
    /\ Len(orig.planes) >= 3
    /\ PlaneGet(orig.planes[1], 0) = Zero
    /\ RPos(PlaneGet(orig.planes[2], 0))
    /\ heap[result.planes][1] = orig.planes[2]

\* C8: in compute_triangular_form the cursor is advanced without a swap
\* only when no row strictly below `row` and strictly above the last row
\* has a nonzero coefficient at the cursor.
AdvanceOnlyWithoutCandidate ==
    (pc = "tri_search" /\ ~(next_row < rows - 1) /\ swap = FALSE) =>
        \A r \in (row + 1)..(rows - 2) : Coef(heap, triangular, r, dim) = Zero

\* C9: in the system compute_rref_form returns, every row with a nonzero
\* coefficient has its pivot (first nonzero coefficient) equal to 1.
EveryRowNormalised ==
    DoneRref =>
        \A i \in 1..Len(heap[result.planes]) :
            LET p == heap[result.planes][i]
            IN  FirstNonzeroIndex(p) # -1 =>
                    PlaneGet(p, FirstNonzeroIndex(p)) = One

\* C10: at every state of compute_triangular_form and compute_rref_form,
\* and in the system returned, a point of the grid satisfies all equations
\* of the working copy iff it satisfies all equations of the receiver.
SolutionSetPreserved ==
    (method # "" /\ pc # "after") =>
        /\ SameSolutions(heap[Working.planes], orig.planes, orig.dimension)
        /\ pc = "done" => result = Working

\* C10 witness: compute_rref_form has returned rows that differ from the
\* receiver's, and the grid holds both solutions and non-solutions
ReducedWithSolutions ==
    /\ DoneRref
    /\ heap[result.planes] # orig.planes
    /\ Len(orig.planes) >= 2
    /\ \E x \in GridPoints(orig.dimension) : Solves(orig.planes, x)
    /\ \E x \in GridPoints(orig.dimension) : ~Solves(orig.planes, x)

====
